---- MODULE Spec2Model ----
(***************************************************************************)
(* Model of the C boundary of duckdb_evalexpr_rhai_rust (src/lib.rs):       *)
(* compile_ast, free_ast, eval_ast and perform_eval, the heap objects they  *)
(* create and destroy, and the ResultCString / ResultCompiledAst values     *)
(* they hand back.  The Rhai engine and serde_json are collaborators; they  *)
(* are modelled over a small set of scripts and JSON texts.                 *)
(***************************************************************************)
EXTENDS Integers, Sequences, FiniteSets, TLC

VARIABLES alive, progs, liveStrings, call, ret

vars == <<alive, progs, liveStrings, call, ret>>

(* ---------------------------- bounds ---------------------------------- *)
MaxPrograms == 2
NumAddrs == 2
MaxStrings == 1
MaxEvals == 2

(* ------------------------ pointers and texts -------------------------- *)
NULL == 0
Addrs == 1 .. NumAddrs
Pids == 1 .. MaxPrograms

\* Script texts the caller passes as `expression`.
Scripts == {"1+1", "context.x + 1", "1 +", "mean([1, 3])",
            "throw \"\\x00\"", "timestamp()"}

\* Byte buffers the caller passes as `context_json`.
ContextBufs == {"{\"x\":1}", "{\"x\":2}", "{not json"}

NoText == "<none>"

\* Panic inside an extern "C" function: the process aborts, or (toolchains
\* that still unwind out of extern "C") the panic leaves the function
\* without a return value.
PanicOutcomes == {"Aborted", "Unwound"}

(* ------------------------- Dynamic and JSON --------------------------- *)
Dyn(t, i) == [t |-> t, i |-> i]
Unit == Dyn("unit", 0)

DecodeOk(v) == [ok |-> TRUE, val |-> v]
DecodeErr == [ok |-> FALSE, val |-> Unit]

\* serde_json::from_str::<Dynamic>
from_str(text) ==
    CASE text = "{\"x\":1}" -> DecodeOk(Dyn("map", 1))
      [] text = "{\"x\":2}" -> DecodeOk(Dyn("map", 2))
      [] OTHER -> DecodeErr

\* serde_json::to_string(&Dynamic)
to_string(v) ==
    CASE v.t = "int" -> [ok |-> TRUE, json |-> ToString(v.i)]
      [] v.t = "float" -> [ok |-> TRUE, json |-> ToString(v.i) \o ".0"]
      [] v.t = "unit" -> [ok |-> TRUE, json |-> "null"]
      [] v.t = "map" -> [ok |-> TRUE, json |-> "{\"x\":" \o ToString(v.i) \o "}"]
      [] OTHER -> [ok |-> FALSE, json |-> NoText]

\* CString::new fails on an interior NUL byte.
NulTexts == {"Runtime error: \\0"}
CStringNew(s) == [ok |-> s \notin NulTexts, text |-> s]

(* ----------------------------- the engine ----------------------------- *)
\* Engine::new() followed by the register_global_module calls of compile_ast
CompileEngine == {"random", "filesystem", "url", "scientific"}

\* Engine::new() followed by the register_global_module calls of perform_eval
AdhocEngine == {"random", "filesystem", "url"}

\* Engine::compile
ParseOk(script) == script # "1 +"
ParseError(script) == "Expecting expression (line 1, position 4)"

\* Scope::new() and Scope::push
ScopeNew == << >>
ScopePush(scope, name, value) == Append(scope, <<name, value>>)

ScopeHas(scope, name) == \E k \in 1 .. Len(scope) : scope[k][1] = name
ScopeGet(scope, name) ==
    LET k == CHOOSE j \in 1 .. Len(scope) :
                 /\ scope[j][1] = name
                 /\ \A m \in (j + 1) .. Len(scope) : scope[m][1] # name
    IN scope[k][2]

EvalOk(v) == [ok |-> TRUE, val |-> v, err |-> NoText]
EvalErr(e) == [ok |-> FALSE, val |-> Unit, err |-> e]

\* Engine::eval_ast_with_scope over a parsed script
Run(engine, script, scope) ==
    CASE script = "1+1" -> EvalOk(Dyn("int", 2))
      [] script = "context.x + 1" ->
            IF ScopeHas(scope, "context")
            THEN EvalOk(Dyn("int", ScopeGet(scope, "context").i + 1))
            ELSE EvalErr("Variable not found: context (line 1, position 1)")
      [] script = "mean([1, 3])" ->
            IF "scientific" \in engine
            THEN EvalOk(Dyn("float", 2))
            ELSE EvalErr("Function not found: mean (array) (line 1, position 1)")
      [] script = "throw \"\\x00\"" -> EvalErr("Runtime error: \\0")
      [] script = "timestamp()" -> EvalOk(Dyn("timestamp", 0))
      [] OTHER -> EvalErr("Syntax error")

\* Engine::eval_with_scope: parse, then run
EvalText(engine, script, scope) ==
    IF ParseOk(script) THEN Run(engine, script, scope)
    ELSE EvalErr("Syntax error: " \o ParseError(script))

(* ------------------------ values crossing the boundary ---------------- *)
\* ResultCString / ResultCompiledAst: a tag and one pointer payload.
Outcome(tag, kind, addr, text) == [tag |-> tag, kind |-> kind, addr |-> addr, text |-> text]
OkNull == Outcome("Ok", "null", NULL, NoText)
OkString(t) == Outcome("Ok", "cstring", NULL, t)
ErrString(t) == Outcome("Err", "cstring", NULL, t)
OkHandle(a) == Outcome("Ok", "handle", a, NoText)
Panic == Outcome("Panic", "none", NULL, NoText)
Void == Outcome("Void", "none", NULL, NoText)
NoOutcome == Outcome("None", "none", NULL, NoText)

NullBuf == "<null>"
Arg(buf, len) == [buf |-> buf, len |-> len]
\* whole buffers with their lengths
Whole(S) == {Arg(b, Len(b)) : b \in S}
\* the arguments a caller may pass: a whole buffer, a buffer with length 0,
\* or a null pointer with length 0
ExpressionArgs == Whole(Scripts) \cup {Arg("1+1", 0), Arg(NullBuf, 0)}
ContextArgs == Whole(ContextBufs) \cup {Arg("{not json", 0), Arg(NullBuf, 0)}

\* context_len == 0 means no context
Supplied(arg) == arg.len # 0

\* make_str! / make_str2!: the first len bytes of the buffer
make_str(s, len) == IF len = 0 THEN "" ELSE s

NoCall == [op |-> "none", ptr |-> NULL, expr |-> Arg(NullBuf, 0), ctx |-> Arg(NullBuf, 0)]

(* ------------------------------ the heap ------------------------------ *)
\* struct CompiledAst and the boxes compile_ast creates for one program
NoProgram == [born |-> FALSE, live |-> {}, addr |-> NULL, engine |-> {},
              ast |-> NoText, evals |-> 0, lastCtx |-> NoText,
              lastOut |-> NoOutcome]

StatusOf(c) == IF ~c.born THEN "Unborn"
               ELSE IF "CompiledAst" \in c.live THEN "Compiled"
               ELSE "Released"
Status(p) == StatusOf(progs[p])

LivePids == {p \in Pids : Status(p) = "Compiled"}
LiveHandles == {progs[p].addr : p \in LivePids}
PidOf(a) == CHOOSE p \in LivePids : progs[p].addr = a

\* the program's record of its latest evaluation that returned an outcome
Evaluated(p, context, outcome) ==
    IF outcome.tag \in {"Ok", "Err"}
    THEN [progs EXCEPT ![p].lastCtx = make_str(context.buf, context.len),
                       ![p].lastOut = outcome,
                       ![p].evals = IF @ < MaxEvals THEN @ + 1 ELSE @]
    ELSE progs

\* the global allocator answering Box::new: any address not in use
Alloc == Addrs \ LiveHandles

Init ==
    /\ alive = TRUE
    /\ progs = [p \in Pids |-> NoProgram]
    /\ liveStrings = 0
    /\ call = NoCall
    /\ ret = NoOutcome

\* Finish with the error branch returning a null message pointer
FinishNullError(result) ==
    IF result.ok
    THEN LET j == to_string(result.val)
         IN IF ~j.ok THEN Panic
            ELSE IF ~CStringNew(j.json).ok THEN Panic
            ELSE OkString(j.json)
    ELSE Outcome("Err", "null", NULL, NoText)

\* lib.rs 137-150 / 198-209: turn the engine's result into a ResultCString
Finish(result) ==
    IF result.ok
    THEN LET j == to_string(result.val)
         IN IF ~j.ok THEN Panic
            ELSE IF ~CStringNew(j.json).ok THEN Panic
            ELSE OkString(j.json)
    ELSE IF ~CStringNew(result.err).ok THEN Panic
         ELSE ErrString(result.err)

\* what a call leaves behind: the value returned, or the effect of a panic
Returns(r) ==
    IF r.tag = "Panic"
    THEN \E p \in PanicOutcomes :
            /\ ret' = Outcome(p, "none", NULL, NoText)
            /\ alive' = (p # "Aborted")
            /\ UNCHANGED liveStrings
    ELSE /\ ret' = r
         /\ liveStrings' = liveStrings + (IF r.kind = "cstring" THEN 1 ELSE 0)
         /\ UNCHANGED alive

\* compile_ast boxing the CompiledAst before looking at the parse result
compile_ast_keeps_failed(expression) ==
    /\ alive
    /\ call' = [NoCall EXCEPT !.op = "compile_ast", !.expr = expression]
    /\ LET expr_str == make_str(expression.buf, expression.len)
           engine == CompileEngine
       IN /\ \E p \in Pids, a \in Alloc :
               /\ Status(p) = "Unborn"
               /\ \A q \in Pids : q < p => Status(q) # "Unborn"
               /\ progs' = [progs EXCEPT ![p] =
                              [born |-> TRUE,
                               live |-> {"CompiledAst", "Engine", "AST", "ResultCompiledAst"},
                               addr |-> a, engine |-> engine, ast |-> expr_str,
                               evals |-> 0, lastCtx |-> NoText,
                               lastOut |-> NoOutcome]]
               /\ IF ParseOk(expr_str)
                  THEN /\ ret' = OkHandle(a)
                       /\ UNCHANGED <<alive, liveStrings>>
                  ELSE /\ liveStrings < MaxStrings
                       /\ Returns(Finish(EvalErr(ParseError(expr_str))))

compile_ast(expression) ==
    /\ alive
    /\ call' = [NoCall EXCEPT !.op = "compile_ast", !.expr = expression]
    /\ LET expr_str == make_str(expression.buf, expression.len)
           engine == CompileEngine
       IN IF ParseOk(expr_str)
          THEN /\ \E p \in Pids, a \in Alloc :
                    /\ Status(p) = "Unborn"
                    /\ \A q \in Pids : q < p => Status(q) # "Unborn"
                    /\ progs' = [progs EXCEPT ![p] =
                                   [born |-> TRUE,
                                    live |-> {"CompiledAst", "Engine", "AST", "ResultCompiledAst"},
                                    addr |-> a, engine |-> engine, ast |-> expr_str,
                                    evals |-> 0, lastCtx |-> NoText,
                                    lastOut |-> NoOutcome]]
                    /\ ret' = OkHandle(a)
               /\ UNCHANGED <<alive, liveStrings>>
          ELSE /\ liveStrings < MaxStrings
               /\ Returns(Finish(EvalErr(ParseError(expr_str))))
               /\ UNCHANGED progs

\* free_ast without the null test: Box::from_raw(null) is dropped
free_ast_unchecked(ptr) ==
    /\ alive
    /\ call' = [NoCall EXCEPT !.op = "free_ast", !.ptr = ptr]
    /\ ret' = Void
    /\ IF ptr = NULL
       THEN /\ alive' = FALSE
            /\ UNCHANGED progs
       ELSE /\ progs' = [progs EXCEPT ![PidOf(ptr)] =
                           [NoProgram EXCEPT !.born = TRUE,
                                             !.live = progs[PidOf(ptr)].live
                                                        \ {"CompiledAst", "Engine", "AST"}]]
            /\ UNCHANGED alive
    /\ UNCHANGED liveStrings

free_ast(ptr) ==
    /\ alive
    /\ call' = [NoCall EXCEPT !.op = "free_ast", !.ptr = ptr]
    /\ ret' = Void
    /\ IF ptr = NULL
       THEN UNCHANGED progs
       ELSE progs' = [progs EXCEPT ![PidOf(ptr)] =
                        [NoProgram EXCEPT !.born = TRUE,
                                          !.live = progs[PidOf(ptr)].live
                                                     \ {"CompiledAst", "Engine", "AST"}]]
    /\ UNCHANGED <<alive, liveStrings>>

\* EvalAstBody with the scope kept in the CompiledAst between calls
EvalAstBodyKeptScope(compiled, context_json, context_len) ==
    LET c == progs[PidOf(compiled)]
        kept == IF c.evals > 0 /\ from_str(c.lastCtx).ok
                THEN ScopePush(ScopeNew, "context", from_str(c.lastCtx).val)
                ELSE ScopeNew
    IN IF context_len # 0
       THEN LET context == from_str(make_str(context_json, context_len))
            IN IF ~context.ok THEN Panic
               ELSE Finish(Run(c.engine, c.ast,
                               ScopePush(kept, "context", context.val)))
       ELSE Finish(Run(c.engine, c.ast, kept))

\* lib.rs 115-135: the result or panic of evaluating a live handle
EvalAstBody(compiled, context_json, context_len) ==
    LET c == progs[PidOf(compiled)]
    IN IF context_len # 0
       THEN LET context == from_str(make_str(context_json, context_len))
            IN IF ~context.ok THEN Panic
               ELSE Finish(Run(c.engine, c.ast,
                               ScopePush(ScopeNew, "context", context.val)))
       ELSE Finish(Run(c.engine, c.ast, ScopeNew))

\* eval_ast taking the box back (Box::from_raw) instead of borrowing it
eval_ast_consuming(compiled, context) ==
    /\ alive
    /\ call' = [NoCall EXCEPT !.op = "eval_ast", !.ptr = compiled, !.ctx = context]
    /\ IF compiled = NULL
       THEN /\ ret' = OkNull
            /\ UNCHANGED <<alive, liveStrings, progs>>
       ELSE /\ liveStrings < MaxStrings
            /\ Returns(EvalAstBody(compiled, context.buf, context.len))
            /\ progs' = [progs EXCEPT ![PidOf(compiled)] =
                            [NoProgram EXCEPT !.born = TRUE,
                                              !.live = progs[PidOf(compiled)].live
                                                         \ {"CompiledAst", "Engine", "AST"}]]

\* eval_ast decoding the context before the null test
eval_ast_decode_first(compiled, context) ==
    /\ alive
    /\ call' = [NoCall EXCEPT !.op = "eval_ast", !.ptr = compiled, !.ctx = context]
    /\ IF compiled = NULL
       THEN /\ Returns(IF Supplied(context) /\ ~from_str(make_str(context.buf, context.len)).ok
                       THEN Panic ELSE OkNull)
            /\ UNCHANGED progs
       ELSE /\ liveStrings < MaxStrings
            /\ Returns(EvalAstBody(compiled, context.buf, context.len))
            /\ progs' = Evaluated(PidOf(compiled), context, ret')

eval_ast(compiled, context) ==
    /\ alive
    /\ call' = [NoCall EXCEPT !.op = "eval_ast", !.ptr = compiled, !.ctx = context]
    /\ IF compiled = NULL
       THEN /\ ret' = OkNull
            /\ UNCHANGED <<alive, liveStrings, progs>>
       ELSE /\ liveStrings < MaxStrings
            /\ Returns(EvalAstBody(compiled, context.buf, context.len))
            /\ progs' = Evaluated(PidOf(compiled), context, ret')

\* lib.rs 168-196: the result or panic of evaluating script text
PerformEvalBody(expr_str, context_json, context_len) ==
    LET engine == AdhocEngine
    IN IF context_len # 0
       THEN LET context == from_str(make_str(context_json, context_len))
            IN IF ~context.ok THEN Panic
               ELSE Finish(EvalText(engine, expr_str,
                                    ScopePush(ScopeNew, "context", context.val)))
       ELSE Finish(EvalText(engine, expr_str, ScopeNew))

perform_eval(expression, context) ==
    /\ alive
    /\ call' = [NoCall EXCEPT !.op = "perform_eval", !.expr = expression, !.ctx = context]
    /\ IF expression.buf = NullBuf \/ expression.len = 0
       THEN /\ ret' = OkNull
            /\ UNCHANGED <<alive, liveStrings>>
       ELSE /\ liveStrings < MaxStrings
            /\ Returns(PerformEvalBody(make_str(expression.buf, expression.len),
                                       context.buf, context.len))
    /\ UNCHANGED progs

\* the receiver releases an owned string it was handed
FreeString ==
    /\ alive
    /\ liveStrings > 0
    /\ liveStrings' = liveStrings - 1
    /\ UNCHANGED <<alive, progs, call, ret>>

Next ==
    \/ \E e \in Whole(Scripts) : compile_ast(e)
    \/ \E h \in LiveHandles \cup {NULL} : free_ast(h)
    \/ \E h \in LiveHandles \cup {NULL}, c \in ContextArgs : eval_ast(h, c)
    \/ \E e \in ExpressionArgs, c \in ContextArgs : perform_eval(e, c)
    \/ FreeString

Spec == Init /\ [][Next]_vars

(* ------------------------------ properties ---------------------------- *)
Returned(o) == o.tag \in {"Ok", "Err"}
Malformed(arg) == Supplied(arg) /\ ~from_str(make_str(arg.buf, arg.len)).ok
NoOp == \/ call.op = "eval_ast" /\ call.ptr = NULL
        \/ call.op = "perform_eval" /\ (call.expr.buf = NullBuf \/ call.expr.len = 0)
Evaluation == call.op \in {"eval_ast", "perform_eval"} /\ ~NoOp

\* C1: an evaluation of a live handle or non-empty script whose supplied
\* context is not well-formed JSON returns an Err outcome with a message and
\* leaves the process running.
C1_MalformedContextReturnsErr ==
    (Evaluation /\ Malformed(call.ctx)) =>
        (alive /\ ret.tag = "Err" /\ ret.kind = "cstring")

\* C3: once a program is released, none of the allocations compile made for
\* it (CompiledAst, Engine, AST, the boxed ResultCompiledAst) is still live.
C3_ReleaseFreesEverything ==
    \A p \in Pids : Status(p) = "Released" => progs[p].live = {}

\* C4 (as claimed): every returned outcome carries a handle or an owned
\* string: never an empty payload.
C4_PayloadAlwaysPresent ==
    Returned(ret) => ret.kind \in {"handle", "cstring"}

\* C4 (amended): every returned outcome has one tag, Ok or Err; Err carries an
\* owned message string; Ok carries a non-null handle (compile) or an owned
\* string (evaluation), except for the null-handle / empty-script no-op, whose
\* Ok payload is null.
C4_OneVariant ==
    Returned(ret) =>
        /\ ret.tag = "Err" => (ret.kind = "cstring" /\ ret.text # NoText /\ ret.addr = NULL)
        /\ ret.tag = "Ok" =>
              /\ ret.kind = "null" <=> NoOp
              /\ ret.kind = "handle" <=> call.op = "compile_ast"
              /\ ret.kind = "handle" => (ret.addr # NULL /\ ret.text = NoText)
              /\ ret.kind = "cstring" => (ret.addr = NULL /\ ret.text # NoText)
              /\ ret.kind \in {"null", "handle", "cstring"}

C4_Witness ==
    /\ call.op = "eval_ast" /\ call.ptr # NULL
    /\ ret.tag = "Err" /\ ret.kind = "cstring"

\* C9: perform_eval returns the same outcome as compile_ast followed by
\* eval_ast for the same script and context.
C9_AdhocMatchesCompiled ==
    (Evaluation /\ call.op = "perform_eval" /\ Returned(ret)) =>
        \A p \in LivePids :
            (/\ progs[p].ast = make_str(call.expr.buf, call.expr.len)
             /\ progs[p].evals > 0
             /\ progs[p].lastCtx = make_str(call.ctx.buf, call.ctx.len)
             /\ Returned(progs[p].lastOut))
            => progs[p].lastOut = ret

\* C10: eval_ast on a live handle whose context is absent or decodes returns
\* Ok with the JSON of the result when execution succeeds and Err with the
\* interpreter's message when it fails, and never aborts.
C10_EvalAstOutcome ==
    (call.op = "eval_ast" /\ call.ptr # NULL /\ ~Malformed(call.ctx)) =>
        LET c == progs[PidOf(call.ptr)]
            scope == IF Supplied(call.ctx)
                     THEN ScopePush(ScopeNew, "context",
                                    from_str(make_str(call.ctx.buf, call.ctx.len)).val)
                     ELSE ScopeNew
            r == Run(c.engine, c.ast, scope)
        IN /\ alive
           /\ Returned(ret)
           /\ ret.tag = "Ok" <=> r.ok
           /\ ret.kind = "cstring"

\* C2: a released program stays released; a compiled program leaves Compiled
\* only through free_ast on its handle; every other call, evaluations that
\* return Ok or Err included, leaves it Compiled with the same engine and AST;
\* a program comes into being only as Compiled, by a successful compile_ast.
C2_Lifecycle ==
    [][\A p \in Pids :
         LET before == StatusOf(progs[p])
             after == StatusOf(progs'[p])
         IN /\ before = "Released" => after = "Released"
            /\ before = "Compiled" => after \in {"Compiled", "Released"}
            /\ (before = "Compiled" /\ after = "Released") =>
                  (call'.op = "free_ast" /\ call'.ptr = progs[p].addr)
            /\ (before = "Compiled" /\ after = "Compiled") =>
                  /\ progs'[p].engine = progs[p].engine
                  /\ progs'[p].ast = progs[p].ast
                  /\ progs'[p].addr = progs[p].addr
                  /\ progs'[p].live = progs[p].live
            /\ (before = "Unborn" /\ after # "Unborn") =>
                  /\ after = "Compiled"
                  /\ call'.op = "compile_ast"
                  /\ ret' = OkHandle(progs'[p].addr)]_vars

C2_Witness ==
    \E p, q \in Pids :
        /\ Status(p) = "Released"
        /\ Status(q) = "Compiled"
        /\ progs[q].evals >= 2
        /\ progs[q].lastOut.tag = "Err"
        /\ call.op = "eval_ast" /\ call.ptr = progs[q].addr

CompileStep ==
    /\ call'.op = "compile_ast"
    /\ (call' # call \/ progs' # progs \/ liveStrings' > liveStrings)

C6_NullIsNoOp ==
    [][(NoOp' /\ <<call, ret>>' # <<call, ret>>) =>
         /\ ret' = OkNull
         /\ UNCHANGED <<alive, progs, liveStrings>>]_vars

C6_Witness ==
    /\ call.op = "eval_ast" /\ call.ptr = NULL
    /\ Malformed(call.ctx)
    /\ ret = OkNull
    /\ LiveHandles # {}

\* C7: free_ast(null) changes no program, no string and does not abort.
C7_FreeNull ==
    [][(call'.op = "free_ast" /\ call'.ptr = NULL /\ call' # call) =>
         UNCHANGED <<alive, progs, liveStrings>>]_vars

C7_Witness ==
    /\ call.op = "free_ast" /\ call.ptr = NULL
    /\ alive
    /\ LiveHandles # {}
    /\ liveStrings > 0

====
